---- MODULE Spec2Model ----
(***************************************************************************)
(* A model of go-smtpsrv: the per-connection SMTP engine (client.go) and   *)
(* the server that accepts connections, tracks the live engines and shuts  *)
(* down (the Server part of message.go).                                   *)
(*                                                                         *)
(* Text is modelled at the byte level: a text is a sequence of one-        *)
(* character strings, so that splitting, upper-casing, prefix tests and    *)
(* joining are computed as the code computes them.                         *)
(***************************************************************************)
EXTENDS Integers, Sequences, FiniteSets, TLC

(***************************************************************************)
(* Bounds of the model.                                                    *)
(***************************************************************************)
\* connections that may arrive at one server in the concurrency runs
MaxConns == 2
\* Close calls the owning process may make in the concurrency runs
MaxCloseCalls == 2
\* RCPT commands in the generated session prefixes
MaxRcpt == 2
\* body lines in the generated DATA sections
MaxBody == 2

Conns == 1..MaxConns
Closers == 1..MaxCloseCalls

(***************************************************************************)
(* Bytes and texts.                                                        *)
(***************************************************************************)
CR == "\r"
LF == "\n"
CRLF == <<CR, LF>>
SP == " "
TAB == "\t"

LowerChars == <<"a","b","c","d","e","f","g","h","i","j","k","l","m",
                "n","o","p","q","r","s","t","u","v","w","x","y","z">>
UpperChars == <<"A","B","C","D","E","F","G","H","I","J","K","L","M",
                "N","O","P","Q","R","S","T","U","V","W","X","Y","Z">>

\* unicode.ToUpper on one byte
UpperChar(c) ==
    IF \E i \in 1..Len(LowerChars) : LowerChars[i] = c
    THEN UpperChars[CHOOSE i \in 1..Len(LowerChars) : LowerChars[i] = c]
    ELSE c

\* bytes.ToUpper (v is t, bound so that t is computed once)
ToUpper(t) ==
    CHOOSE u \in {[i \in 1..Len(v) |-> UpperChar(v[i])] : v \in {t}} : TRUE

\* unicode.IsSpace on the bytes that can occur
IsSpace(c) == c \in {SP, TAB, CR, LF}

\* bytes.TrimSpace: strip leading and trailing white space
RECURSIVE TrimLeft(_)
TrimLeft(t) ==
    IF t # <<>> /\ IsSpace(Head(t)) THEN TrimLeft(Tail(t)) ELSE t

RECURSIVE TrimRight(_)
TrimRight(t) ==
    IF t # <<>> /\ IsSpace(t[Len(t)]) THEN TrimRight(SubSeq(t, 1, Len(t) - 1)) ELSE t

TrimSpace(t) == TrimRight(TrimLeft(t))

\* bytes.HasPrefix
HasPrefix(t, p) == Len(t) >= Len(p) /\ SubSeq(t, 1, Len(p)) = p

\* bytes.SplitN(l, " ", 2): cut at the first space, if there is one
SplitN2(l) ==
    IF \E i \in 1..Len(l) : l[i] = SP
    THEN LET i == CHOOSE j \in 1..Len(l) :
                     l[j] = SP /\ \A k \in 1..(j - 1) : l[k] # SP
         IN  <<SubSeq(l, 1, i - 1), SubSeq(l, i + 1, Len(l))>>
    ELSE <<l>>

\* strings.Join(lines, sep)
RECURSIVE Join(_, _)
Join(lines, sep) ==
    IF lines = <<>> THEN <<>>
    ELSE IF Len(lines) = 1 THEN lines[1]
    ELSE lines[1] \o sep \o Join(Tail(lines), sep)


(***************************************************************************)
(* Configuration (Config) and the replies of the engine.                   *)
(***************************************************************************)
Banner == "Banner"

\* writeReply(code, message): one reply line "<code> <message>\r\n"
Reply(code, message) == [code |-> code, text |-> message]

\* writeBanner
BannerReply == Reply(220, Banner \o " [go-smtpsrv]")

(***************************************************************************)
(* net/mail.ParseAddress, as far as the engine uses it: an optional pair   *)
(* of angle brackets around local@domain, white space around it skipped.   *)
(* On failure the *Address it returns is nil.                              *)
(***************************************************************************)
AtomChars == {LowerChars[i] : i \in 1..Len(LowerChars)} \cup
             {UpperChars[i] : i \in 1..Len(UpperChars)} \cup {".", "-", "_"}

IsAddrSpec(t) ==
    \E i \in 1..Len(t) :
        /\ t[i] = "@"
        /\ i > 1 /\ i < Len(t)
        /\ \A k \in (1..Len(t)) \ {i} : t[k] \in AtomChars

Unbracket(t) ==
    IF Len(t) >= 2 /\ t[1] = "<" /\ t[Len(t)] = ">"
    THEN SubSeq(t, 2, Len(t) - 1) ELSE t

ParseAddress(t) ==
    CHOOSE a \in
        {IF v = <<>>
         THEN [ok |-> FALSE, addr |-> <<>>, err |-> "mail: no address"]
         ELSE IF IsAddrSpec(Unbracket(v))
         THEN [ok |-> TRUE, addr |-> Unbracket(v), err |-> ""]
         ELSE [ok |-> FALSE, addr |-> <<>>, err |-> "mail: missing '@' or angle-addr"]
           : v \in {TrimSpace(t)}} : TRUE

(***************************************************************************)
(* The session of one Client and its command handlers.  A handler takes    *)
(* the session s = [mailFrom, mailTo] and gives the session after it, the  *)
(* replies it wrote, where the engine goes next and whether it panicked.   *)
(***************************************************************************)
NoPanic == ""
NilDeref == "invalid memory address or nil pointer dereference"
SendOnClosed == "send on closed channel"
CloseOfClosed == "close of closed channel"

Session(from, to) == [mailFrom |-> from, mailTo |-> to]

Result(s, replies, next, panic) ==
    [mailFrom |-> s.mailFrom, mailTo |-> s.mailTo, out |-> replies,
     to |-> next, panic |-> panic]

\* a reset that forgets the sender and keeps the recipients
resetSenderOnly(s) == Session(<<>>, s.mailTo)

\* Client.reset
reset(s) == Session(<<>>, <<>>)

kFROM == <<"F","R","O","M",":">>
kTO == <<"T","O",":">>

\* a processHELO that replies and resets nothing
processHELONoReset(s) == Result(s, <<Reply(250, Banner)>>, "read", NoPanic)

\* a processHELO that forgets the sender and keeps the recipients
processHELOSenderOnly(s) ==
    Result(Session(<<>>, s.mailTo), <<Reply(250, Banner)>>, "read", NoPanic)

\* Client.processHELO
processHELO(s) == Result(reset(s), <<Reply(250, Banner)>>, "read", NoPanic)

\* processMAIL without its check that MAIL was not invoked before
processMAILNoCheck(s, b) ==
    IF ~HasPrefix(ToUpper(b), <<"F","R","O","M",":">>)
    THEN Result(s, <<Reply(501, "syntax: \"MAIL FROM:<address>\"")>>, "read", NoPanic)
    ELSE LET a == ParseAddress(SubSeq(b, 6, Len(b)))
         IN  IF ~a.ok
             THEN Result(s, <<Reply(501, a.err)>>, "read", NoPanic)
             ELSE Result(Session(a.addr, s.mailTo), <<Reply(250, "ok")>>, "read", NoPanic)

\* Client.processMAIL
processMAIL(s, b) ==
    IF Len(s.mailFrom) # 0
    THEN Result(s, <<Reply(503, "MAIL already invoked")>>, "read", NoPanic)
    ELSE IF ~HasPrefix(ToUpper(b), kFROM)
    THEN Result(s, <<Reply(501, "syntax: \"MAIL FROM:<address>\"")>>, "read", NoPanic)
    ELSE LET a == ParseAddress(SubSeq(b, 6, Len(b)))
         IN  IF ~a.ok
             THEN Result(s, <<Reply(501, a.err)>>, "read", NoPanic)
             ELSE Result(Session(a.addr, s.mailTo), <<Reply(250, "ok")>>, "read", NoPanic)

\* processRCPT without its check that MAIL was invoked
processRCPTNoCheck(s, b) ==
    IF ~HasPrefix(ToUpper(b), <<"T","O",":">>)
    THEN Result(s, <<Reply(501, "syntax: \"RCPT TO:<address>\"")>>, "read", NoPanic)
    ELSE LET a == ParseAddress(SubSeq(b, 4, Len(b)))
         IN  IF ~a.ok
             THEN Result(s, <<Reply(501, a.err)>>, "finish", NilDeref)
             ELSE Result(Session(s.mailFrom, Append(s.mailTo, a.addr)),
                         <<Reply(250, "ok")>>, "read", NoPanic)

\* Client.processRCPT.  After the 501 for an address that does not parse
\* there is no return: a.Address dereferences the nil *Address and the
\* goroutine panics.
processRCPT(s, b) ==
    IF Len(s.mailFrom) = 0
    THEN Result(s, <<Reply(503, "MAIL must be invoked first")>>, "read", NoPanic)
    ELSE IF ~HasPrefix(ToUpper(b), kTO)
    THEN Result(s, <<Reply(501, "syntax: \"RCPT TO:<address>\"")>>, "read", NoPanic)
    ELSE LET a == ParseAddress(SubSeq(b, 4, Len(b)))
         IN  IF ~a.ok
             THEN Result(s, <<Reply(501, a.err)>>, "finish", NilDeref)
             ELSE Result(Session(s.mailFrom, Append(s.mailTo, a.addr)),
                         <<Reply(250, "ok")>>, "read", NoPanic)

\* processDATA without its check of the recipients
processDATANoCheck(s) ==
    Result(s, <<Reply(354, "continue until \\r\\n.\\r\\n")>>, "data", NoPanic)

\* Client.processDATA, up to its read loop: the check of the recipients and
\* the 354 reply
processDATA(s) ==
    IF Len(s.mailTo) = 0
    THEN Result(s, <<Reply(503, "RCPT must be invoked first")>>, "read", NoPanic)
    ELSE Result(s, <<Reply(354, "continue until \\r\\n.\\r\\n")>>, "data", NoPanic)

\* a processRSET that replies and resets nothing
processRSETNoReset(s) == Result(s, <<Reply(250, "ok")>>, "read", NoPanic)

\* Client.processRSET
processRSET(s) == Result(reset(s), <<Reply(250, "ok")>>, "read", NoPanic)

\* Client.processNOOP
processNOOP(s) == Result(s, <<Reply(250, "ok")>>, "read", NoPanic)

\* a QUIT that says bye and goes on with the command loop
processQUITGoesOn(s) == Result(s, <<Reply(221, "bye")>>, "read", NoPanic)

\* Client.processQUIT, and the c.conn.Close(); return that follows it in run
processQUIT(s) == Result(s, <<Reply(221, "bye")>>, "quit", NoPanic)

kHELO == <<"H","E","L","O">>
kEHLO == <<"E","H","L","O">>
kMAIL == <<"M","A","I","L">>
kRCPT == <<"R","C","P","T">>
kDATA == <<"D","A","T","A">>
kRSET == <<"R","S","E","T">>
kNOOP == <<"N","O","O","P">>
kQUIT == <<"Q","U","I","T">>

\* the command keyword of a line, as run computes it
Keyword(l) == ToUpper(TrimSpace(SplitN2(l)[1]))

\* the parameter of a line: nil when the line has no space
Param(l) == IF Len(SplitN2(l)) > 1 THEN SplitN2(l)[2] ELSE <<>>

\* a switch whose default case also resets the session
DispatchUnknownResets(s, l) ==
    LET cmd == Keyword(l)
        param == Param(l)
    IN  IF cmd = kHELO \/ cmd = kEHLO THEN processHELO(s)
        ELSE IF cmd = kMAIL THEN processMAIL(s, param)
        ELSE IF cmd = kRCPT THEN processRCPT(s, param)
        ELSE IF cmd = kDATA THEN processDATA(s)
        ELSE IF cmd = kRSET THEN processRSET(s)
        ELSE IF cmd = kNOOP THEN processNOOP(s)
        ELSE IF cmd = kQUIT THEN processQUIT(s)
        ELSE Result(reset(s), <<Reply(502, "unsupported command")>>, "read", NoPanic)

\* the switch of Client.run on one line
Dispatch(s, l) ==
    LET cmd == Keyword(l)
        param == Param(l)
    IN  IF cmd = kHELO \/ cmd = kEHLO THEN processHELO(s)
        ELSE IF cmd = kMAIL THEN processMAIL(s, param)
        ELSE IF cmd = kRCPT THEN processRCPT(s, param)
        ELSE IF cmd = kDATA THEN processDATA(s)
        ELSE IF cmd = kRSET THEN processRSET(s)
        ELSE IF cmd = kNOOP THEN processNOOP(s)
        ELSE IF cmd = kQUIT THEN processQUIT(s)
        ELSE Result(s, <<Reply(502, "unsupported command")>>, "read", NoPanic)

\* an end-of-transmission test that takes any line starting with "."
IsTerminatorPrefix(l) == HasPrefix(l, <<".">>)

\* the end-of-transmission test of processDATA: bytes.Equal(l, ".")
IsTerminator(l) == l = <<".">>

\* the Message processDATA builds
NewMessage(s, lines) ==
    [From |-> s.mailFrom, To |-> s.mailTo, Body |-> Join(lines, CRLF)]


(***************************************************************************)
(* The memory behind c.mailTo.  A []string is a slice header: the array it *)
(* points into, its length and its capacity.  The Message handed to the    *)
(* sink holds a copy of the header of c.mailTo, so it shares the array.    *)
(* The heap of an engine is the sequence of the arrays allocated for it,   *)
(* each with the cells written so far.                                     *)
(***************************************************************************)
\* []string{}: no cell
NoSlice == [arr |-> 0, len |-> 0, cap |-> 0]

\* the strings a slice header gives access to
View(heap, sl) == IF sl.len = 0 THEN <<>> ELSE SubSeq(heap[sl.arr], 1, sl.len)

\* the capacity append gives the array it allocates for a full slice
GrowCap(cap) == IF cap = 0 THEN 1 ELSE 2 * cap

\* append(sl, x): written into the array when the capacity allows, else
\* into a new array that gets a copy of the cells
appendTo(heap, sl, x) ==
    IF sl.len < sl.cap
    THEN [heap |-> [heap EXCEPT ![sl.arr] =
                      SubSeq(@, 1, sl.len) \o <<x>> \o SubSeq(@, sl.len + 2, Len(@))],
          to |-> [sl EXCEPT !.len = sl.len + 1]]
    ELSE [heap |-> Append(heap, View(heap, sl) \o <<x>>),
          to |-> [arr |-> Len(heap) + 1, len |-> sl.len + 1, cap |-> GrowCap(sl.cap)]]

\* a reset that empties the slice in place: c.mailTo = c.mailTo[:0]
resetToInPlace(sl) == [sl EXCEPT !.len = 0]

\* Client.reset, for the memory: c.mailTo = []string{}
resetTo(sl) == NoSlice

\* the memory of c after a handler has left the recipients to: nothing
\* happens to it when they are as before, reset has run when there are none
\* left, and else the last of them has been appended
Assigned(c, to) ==
    IF to = c.mailTo THEN [heap |-> c.heap, to |-> c.to]
    ELSE IF to = <<>> THEN [heap |-> c.heap, to |-> resetTo(c.to)]
    ELSE appendTo(c.heap, c.to, to[Len(to)])

(***************************************************************************)
(* What a peer sends on its connection: a sequence of items.  A "line" is  *)
(* one line that fits the reader's buffer; a "long" item is a line longer  *)
(* than the buffer, whose last fragment is t; a "timeout" is a pause       *)
(* longer than Config.ReadTimeout.  After its last item the peer           *)
(* disconnects (EOF).                                                      *)
(***************************************************************************)
Line(t) == [k |-> "line", t |-> t]
Long(t) == [k |-> "long", t |-> t]
Timeout == [k |-> "timeout", t |-> <<>>]

VARIABLES
    pending,     \* the connections that will arrive, each the items its peer sends
    listener,    \* s.listener: "open" or "closed"
    client,      \* the Client of each accepted connection
    clients,     \* s.clients
    waitGroup,   \* the counter of s.waitGroup
    mutex,       \* s.mutex: 0 when free, else the Close call or the loop that holds it
    accept,      \* the goroutine of Server.accept: [pc, c]
    remove,      \* the goroutine of Server.remove: [pc, p], p the Client it handles
    closer,      \* the calls of Server.Close: [pc, force, i]
    sinkClosed,  \* whether s.newMessage has been closed
    crashed      \* the panic that ended the process, or NoPanic

vars == <<pending, listener, client, clients, waitGroup, mutex, accept,
          remove, closer, sinkClosed, crashed>>

Running == crashed = NoPanic

\* a connection that has not been accepted.  Besides the fields of Client the
\* record keeps what the peer has still to send (inp), what the engine has
\* read (hist), written (out) and handed to the sink (delivered), and where
\* the engine was when Close(true) closed its transport (forced); and for
\* the memory of c.mailTo its slice header (to), the arrays (heap) and the
\* headers in the Messages handed over (sent).
NoClient ==
    [pc |-> "none", inp |-> <<>>, hist |-> <<>>, mailFrom |-> <<>>,
     mailTo |-> <<>>, lines |-> <<>>, out |-> <<>>, connClosed |-> FALSE,
     panic |-> NoPanic, delivered |-> <<>>, forced |-> "none",
     to |-> NoSlice, heap |-> <<>>, sent |-> <<>>]

\* NewClient: the Client for a connection whose peer sends script; its
\* goroutine is started at once
NewClient(script) == [NoClient EXCEPT !.pc = "start", !.inp = script]

Spawned == {e \in Conns : client[e].pc # "none"}

\* writeReply: the replies the engine has written.  writeReply ignores the
\* error of conn.Write, so a reply written to a closed transport is written
\* all the same.
Write(c, replies) == c.out \o replies

\* Client.readLine on the connection of c: the line and the error it returns
\* and the input left.  A line longer than the buffer comes back from
\* bufio's ReadLine with isPrefix set and a nil error, so readLine returns
\* (nil, nil); the rest of that line is the next line read.
readLine(c) ==
    IF c.inp = <<>>
    THEN [err |-> TRUE, l |-> <<>>, rest |-> <<>>]
    ELSE LET it == Head(c.inp)
         IN  IF it.k = "timeout"
             THEN [err |-> TRUE, l |-> <<>>, rest |-> Tail(c.inp)]
             ELSE IF it.k = "long"
             THEN [err |-> FALSE, l |-> <<>>, rest |-> <<Line(it.t)>> \o Tail(c.inp)]
             ELSE [err |-> FALSE, l |-> it.t, rest |-> Tail(c.inp)]

\* the items read so far, with the one read now
Read(c) == IF c.inp = <<>> THEN c.hist ELSE Append(c.hist, Head(c.inp))

(***************************************************************************)
(* Client.run, one step per blocking operation.                            *)
(***************************************************************************)
\* a run that starts its command loop without the greeting
GreetSilent(e) ==
    /\ Running
    /\ client[e].pc = "start"
    /\ client' = [client EXCEPT ![e].pc = "read"]
    /\ UNCHANGED <<pending, listener, clients, waitGroup, mutex, accept,
                   remove, closer, sinkClosed, crashed>>

\* run: writeBanner
Greet(e) ==
    /\ Running
    /\ client[e].pc = "start"
    /\ client' = [client EXCEPT ![e].pc = "read",
                                ![e].out = Write(client[e], <<BannerReply>>)]
    /\ UNCHANGED <<pending, listener, clients, waitGroup, mutex, accept,
                   remove, closer, sinkClosed, crashed>>

\* run: one turn of the command loop: readLine, then the switch
ReadCommand(e) ==
    /\ Running
    /\ client[e].pc = "read"
    /\ \E c \in {client[e]} :
       \E r \in {readLine(c)} :
       \E d \in {Dispatch(Session(c.mailFrom, c.mailTo), r.l)} :
         client' = [client EXCEPT ![e] =
             IF r.err
             THEN [c EXCEPT !.pc = "finish", !.inp = r.rest, !.hist = Read(c)]
             ELSE [c EXCEPT !.pc = IF d.to = "quit" THEN "finish" ELSE d.to,
                            !.inp = r.rest,
                            !.hist = Read(c),
                            !.mailFrom = d.mailFrom,
                            !.mailTo = d.mailTo,
                            !.to = Assigned(c, d.mailTo).to,
                            !.heap = Assigned(c, d.mailTo).heap,
                            !.lines = <<>>,
                            !.out = Write(c, d.out),
                            !.connClosed = c.connClosed \/ d.to = "quit",
                            !.panic = d.panic]]
    /\ UNCHANGED <<pending, listener, clients, waitGroup, mutex, accept,
                   remove, closer, sinkClosed, crashed>>

\* a read loop that writes the 250 for the Message as soon as it has read
\* the "." line, before the hand-off
ReadDataRepliesAtOnce(e) ==
    /\ Running
    /\ client[e].pc = "data"
    /\ \E c \in {client[e]} :
       \E r \in {readLine(c)} :
         client' = [client EXCEPT ![e] =
             IF r.err
             THEN [c EXCEPT !.pc = "read", !.inp = r.rest, !.hist = Read(c),
                            !.lines = <<>>]
             ELSE IF IsTerminator(r.l)
             THEN [c EXCEPT !.pc = "send", !.inp = r.rest, !.hist = Read(c),
                            !.out = Write(c, <<Reply(250, "message queued for delivery")>>)]
             ELSE [c EXCEPT !.inp = r.rest, !.hist = Read(c),
                            !.lines = Append(c.lines, r.l)]]
    /\ UNCHANGED <<pending, listener, clients, waitGroup, mutex, accept,
                   remove, closer, sinkClosed, crashed>>

\* processDATA: one turn of its read loop.  A failed read leaves the loop,
\* and processDATA returns to the command loop of run.
ReadData(e) ==
    /\ Running
    /\ client[e].pc = "data"
    /\ \E c \in {client[e]} :
       \E r \in {readLine(c)} :
         client' = [client EXCEPT ![e] =
             IF r.err
             THEN [c EXCEPT !.pc = "read", !.inp = r.rest, !.hist = Read(c),
                            !.lines = <<>>]
             ELSE IF IsTerminator(r.l)
             THEN [c EXCEPT !.pc = "send", !.inp = r.rest, !.hist = Read(c)]
             ELSE [c EXCEPT !.inp = r.rest, !.hist = Read(c),
                            !.lines = Append(c.lines, r.l)]]
    /\ UNCHANGED <<pending, listener, clients, waitGroup, mutex, accept,
                   remove, closer, sinkClosed, crashed>>

\* a hand-off that is given up when the transport has been closed
HandoffCancelledByClose(e) ==
    /\ Running
    /\ client[e].pc = "send"
    /\ LET c == client[e]
       IN  client' = [client EXCEPT ![e] =
             IF sinkClosed
             THEN [c EXCEPT !.pc = "finish", !.panic = SendOnClosed]
             ELSE IF c.connClosed
             THEN [c EXCEPT !.pc = "finish"]
             ELSE [c EXCEPT !.pc = "queued",
                            !.sent = Append(c.sent, c.to),
                            !.delivered = Append(c.delivered,
                                NewMessage(Session(c.mailFrom, c.mailTo), c.lines))]]
    /\ UNCHANGED <<pending, listener, clients, waitGroup, mutex, accept,
                   remove, closer, sinkClosed, crashed>>

\* processDATA: c.newMessage <- &Message{...}, received by the consumer of
\* s.NewMessage.  A send on a closed channel panics.
Handoff(e) ==
    /\ Running
    /\ client[e].pc = "send"
    /\ LET c == client[e]
       IN  client' = [client EXCEPT ![e] =
             IF sinkClosed
             THEN [c EXCEPT !.pc = "finish", !.panic = SendOnClosed]
             ELSE [c EXCEPT !.pc = "queued",
                            !.sent = Append(c.sent, c.to),
                            !.delivered = Append(c.delivered,
                                NewMessage(Session(c.mailFrom, c.mailTo), c.lines))]]
    /\ UNCHANGED <<pending, listener, clients, waitGroup, mutex, accept,
                   remove, closer, sinkClosed, crashed>>

\* processDATA: c.reset() and the 250 reply after the hand-off
Queued(e) ==
    /\ Running
    /\ client[e].pc = "queued"
    /\ LET c == client[e]
           s == reset(Session(c.mailFrom, c.mailTo))
       IN  client' = [client EXCEPT ![e] =
             [c EXCEPT !.pc = "read", !.mailFrom = s.mailFrom, !.mailTo = s.mailTo,
                       !.to = resetTo(c.to),
                       !.lines = <<>>,
                       !.out = Write(c, <<Reply(250, "message queued for delivery")>>)]]
    /\ UNCHANGED <<pending, listener, clients, waitGroup, mutex, accept,
                   remove, closer, sinkClosed, crashed>>

\* a completion signal that waits while any engine is handing a Message over
SignalBehindHandoff(e) ==
    /\ Running
    /\ client[e].pc = "finish"
    /\ remove.pc = "recv"
    /\ \A f \in Conns : client[f].pc # "send"
    /\ client' = [client EXCEPT ![e].pc = "done"]
    /\ remove' = [pc |-> "lock", p |-> e]
    /\ crashed' = client[e].panic
    /\ UNCHANGED <<pending, listener, clients, waitGroup, mutex, accept,
                   closer, sinkClosed>>

\* run's deferred c.finished <- c, received by the loop of Server.remove.
\* When run is unwinding from a panic the process dies once the deferred
\* send is done.
Signal(e) ==
    /\ Running
    /\ client[e].pc = "finish"
    /\ remove.pc = "recv"
    /\ client' = [client EXCEPT ![e].pc = "done"]
    /\ remove' = [pc |-> "lock", p |-> e]
    /\ crashed' = client[e].panic
    /\ UNCHANGED <<pending, listener, clients, waitGroup, mutex, accept,
                   closer, sinkClosed>>


(***************************************************************************)
(* Server.accept.                                                          *)
(***************************************************************************)
\* s.listener.Accept() returns a connection: NewClient, which starts run
AcceptConn ==
    /\ Running
    /\ accept.pc = "Accept"
    /\ listener = "open"
    /\ pending # <<>>
    /\ LET n == Cardinality(Spawned) + 1
       IN  /\ client' = [client EXCEPT ![n] = NewClient(Head(pending))]
           /\ accept' = [pc |-> "Add", c |-> n]
    /\ pending' = Tail(pending)
    /\ UNCHANGED <<listener, clients, waitGroup, mutex, remove, closer,
                   sinkClosed, crashed>>

\* s.waitGroup.Add(1)
WaitGroupAdd ==
    /\ Running
    /\ accept.pc = "Add"
    /\ waitGroup' = waitGroup + 1
    /\ accept' = [accept EXCEPT !.pc = "Append"]
    /\ UNCHANGED <<pending, listener, client, clients, mutex, remove, closer,
                   sinkClosed, crashed>>

\* s.mutex.Lock(); s.clients = append(s.clients, c); s.mutex.Unlock()
Register ==
    /\ Running
    /\ accept.pc = "Append"
    /\ mutex = 0
    /\ clients' = Append(clients, accept.c)
    /\ accept' = [pc |-> "Accept", c |-> 0]
    /\ UNCHANGED <<pending, listener, client, waitGroup, mutex, remove, closer,
                   sinkClosed, crashed>>

\* s.listener.Accept() fails because the listener is closed: leave the loop
AcceptError ==
    /\ Running
    /\ accept.pc = "Accept"
    /\ listener = "closed"
    /\ accept' = [accept EXCEPT !.pc = "Finished"]
    /\ UNCHANGED <<pending, listener, client, clients, waitGroup, mutex, remove,
                   closer, sinkClosed, crashed>>

(***************************************************************************)
(* Server.remove.                                                          *)
(***************************************************************************)
\* whether s.clients holds p
Registered(p) == \E i \in 1..Len(clients) : clients[i] = p

\* s.clients without its first element equal to p
Without(list, p) ==
    LET i == CHOOSE j \in 1..Len(list) :
                 list[j] = p /\ \A k \in 1..(j - 1) : list[k] # p
    IN  SubSeq(list, 1, i - 1) \o SubSeq(list, i + 1, Len(list))

\* the mutex is held by the loop of remove
HeldByRemove == 0 - 1

\* a remove that goes on to s.waitGroup.Done() whether it found p or not
RemoveClientAlwaysDone ==
    /\ Running
    /\ remove.pc = "lock"
    /\ mutex = 0
    /\ clients' = IF Registered(remove.p) THEN Without(clients, remove.p) ELSE clients
    /\ mutex' = HeldByRemove
    /\ remove' = [remove EXCEPT !.pc = "Done"]
    /\ UNCHANGED <<pending, listener, client, waitGroup, accept, closer,
                   sinkClosed, crashed>>

\* the body of the loop of remove: s.mutex.Lock(), the search for p and,
\* for the p found, its removal from s.clients; for a p not found,
\* s.mutex.Unlock()
RemoveClient ==
    /\ Running
    /\ remove.pc = "lock"
    /\ mutex = 0
    /\ IF Registered(remove.p)
       THEN /\ clients' = Without(clients, remove.p)
            /\ mutex' = HeldByRemove
            /\ remove' = [remove EXCEPT !.pc = "Done"]
       ELSE /\ remove' = [pc |-> "recv", p |-> 0]
            /\ UNCHANGED <<clients, mutex>>
    /\ UNCHANGED <<pending, listener, client, waitGroup, accept, closer,
                   sinkClosed, crashed>>

\* s.waitGroup.Done() for the p removed, and s.mutex.Unlock().  The counter
\* is not guarded by the mutex: accept adds to it outside.
WaitGroupDone ==
    /\ Running
    /\ remove.pc = "Done"
    /\ waitGroup' = waitGroup - 1
    /\ mutex' = 0
    /\ remove' = [pc |-> "recv", p |-> 0]
    /\ UNCHANGED <<pending, listener, client, clients, accept, closer,
                   sinkClosed, crashed>>

(***************************************************************************)
(* Server.Close(force).                                                    *)
(***************************************************************************)
\* the call, and s.listener.Close()
CallClose(k, force) ==
    /\ Running
    /\ closer[k].pc = "idle"
    /\ \A j \in Closers : j < k => closer[j].pc # "idle"
    /\ listener' = "closed"
    /\ closer' = [closer EXCEPT ![k] = [pc |-> "RecvFinished", force |-> force, i |-> 0]]
    /\ UNCHANGED <<pending, client, clients, waitGroup, mutex, accept, remove,
                   sinkClosed, crashed>>

\* an accept that lets every Close call past <-s.finished
AcceptFinishedEveryCall(k) ==
    /\ Running
    /\ accept.pc = "Finished"
    /\ closer[k].pc = "RecvFinished"
    /\ closer' = [closer EXCEPT ![k].pc = IF closer[k].force THEN "Lock" ELSE "Wait"]
    /\ UNCHANGED <<pending, listener, client, clients, waitGroup, mutex, accept,
                   remove, sinkClosed, crashed>>

\* <-s.finished in Close, with s.finished <- true at the end of accept
AcceptFinished(k) ==
    /\ Running
    /\ accept.pc = "Finished"
    /\ closer[k].pc = "RecvFinished"
    /\ accept' = [accept EXCEPT !.pc = "exit"]
    /\ closer' = [closer EXCEPT ![k].pc = IF closer[k].force THEN "Lock" ELSE "Wait"]
    /\ UNCHANGED <<pending, listener, client, clients, waitGroup, mutex, remove,
                   sinkClosed, crashed>>

\* force: s.mutex.Lock()
ForceLock(k) ==
    /\ Running
    /\ closer[k].pc = "Lock"
    /\ mutex = 0
    /\ mutex' = k
    /\ closer' = [closer EXCEPT ![k].pc = "Range", ![k].i = 1]
    /\ UNCHANGED <<pending, listener, client, clients, waitGroup, accept, remove,
                   sinkClosed, crashed>>

\* how many of the items c has not read may already be in the buffer of
\* its bufio.Reader when the transport is closed under it: none before the
\* first read, after a failed read or past a pause of the peer
Buffered(c) ==
    IF c.connClosed \/ c.pc \in {"finish", "done"} THEN {Len(c.inp)}
    ELSE IF c.hist = <<>> \/ c.hist[Len(c.hist)].k = "timeout" THEN {0}
    ELSE {n \in 0..Len(c.inp) : \A j \in 1..n : c.inp[j].k # "timeout"}

\* force: v.Close() for the next v of s.clients.  Client.Close closes the
\* transport: the lines already buffered can still be read, then reads fail.
ForceClose(k) ==
    /\ Running
    /\ closer[k].pc = "Range"
    /\ closer[k].i <= Len(clients)
    /\ LET v == clients[closer[k].i]
       IN  \E n \in Buffered(client[v]) :
             client' = [client EXCEPT ![v].connClosed = TRUE,
                                      ![v].inp = SubSeq(client[v].inp, 1, n),
                                      ![v].forced = IF client[v].forced = "none"
                                                    THEN client[v].pc
                                                    ELSE client[v].forced]
    /\ closer' = [closer EXCEPT ![k].i = closer[k].i + 1]
    /\ UNCHANGED <<pending, listener, clients, waitGroup, mutex, accept, remove,
                   sinkClosed, crashed>>

\* force: the end of the range loop, s.mutex.Unlock()
ForceUnlock(k) ==
    /\ Running
    /\ closer[k].pc = "Range"
    /\ closer[k].i > Len(clients)
    /\ mutex' = 0
    /\ closer' = [closer EXCEPT ![k].pc = "Wait"]
    /\ UNCHANGED <<pending, listener, client, clients, waitGroup, accept, remove,
                   sinkClosed, crashed>>

\* a Wait that does not wait
WaitReturnsAtOnce == TRUE

\* s.waitGroup.Wait() returns when the counter is zero
WaitReturns == waitGroup = 0

Wait(k) ==
    /\ Running
    /\ closer[k].pc = "Wait"
    /\ WaitReturns
    /\ closer' = [closer EXCEPT ![k].pc = "CloseSink"]
    /\ UNCHANGED <<pending, listener, client, clients, waitGroup, mutex, accept,
                   remove, sinkClosed, crashed>>

\* close(s.newMessage), and Close returns.  Closing a closed channel panics.
CloseSink(k) ==
    /\ Running
    /\ closer[k].pc = "CloseSink"
    /\ sinkClosed' = TRUE
    /\ crashed' = IF sinkClosed THEN CloseOfClosed ELSE crashed
    /\ closer' = [closer EXCEPT ![k].pc = "returned"]
    /\ UNCHANGED <<pending, listener, client, clients, waitGroup, mutex, accept,
                   remove>>

(***************************************************************************)
(* The specifications.                                                     *)
(***************************************************************************)
Next ==
    \/ AcceptConn
    \/ WaitGroupAdd
    \/ Register
    \/ AcceptError
    \/ RemoveClient
    \/ WaitGroupDone
    \/ \E e \in Conns : Greet(e)
    \/ \E e \in Conns : ReadCommand(e)
    \/ \E e \in Conns : ReadData(e)
    \/ \E e \in Conns : Handoff(e)
    \/ \E e \in Conns : Queued(e)
    \/ \E e \in Conns : Signal(e)
    \/ \E k \in Closers, force \in BOOLEAN : CallClose(k, force)
    \/ \E k \in Closers : AcceptFinished(k)
    \/ \E k \in Closers : ForceLock(k)
    \/ \E k \in Closers : ForceClose(k)
    \/ \E k \in Closers : ForceUnlock(k)
    \/ \E k \in Closers : Wait(k)
    \/ \E k \in Closers : CloseSink(k)

\* the state NewServer leaves, before any connection: the accept and remove
\* goroutines started, no Client, the sink open
InitServer ==
    /\ listener = "open"
    /\ client = [e \in Conns |-> NoClient]
    /\ clients = <<>>
    /\ waitGroup = 0
    /\ mutex = 0
    /\ accept = [pc |-> "Accept", c |-> 0]
    /\ remove = [pc |-> "recv", p |-> 0]
    /\ sinkClosed = FALSE
    /\ crashed = NoPanic


(***************************************************************************)
(* The peers of the checked runs.                                          *)
(***************************************************************************)
\* the i-th address: a@l, b@l, c@l, ...
Addr(i) == <<LowerChars[i], "@", "l">>

cHELO == Line(kHELO)
cMAIL == Line(kMAIL \o <<SP>> \o kFROM \o Addr(1))
cRCPT(i) == Line(kRCPT \o <<SP>> \o kTO \o Addr(i + 1))
cDATA == Line(kDATA)
cRSET == Line(kRSET)
cNOOP == Line(kNOOP)
cQUIT == Line(kQUIT)
cDot == Line(<<".">>)

\* the sequences over S of length at most n
RECURSIVE SeqsUpTo(_, _)
SeqsUpTo(S, n) ==
    IF n = 0 THEN {<<>>}
    ELSE LET T == SeqsUpTo(S, n - 1)
         IN  T \cup {Append(t, x) : t \in T, x \in S}

\* RCPT TO:b@l, RCPT TO:c@l, ... : n of them
Rcpts(n) == [i \in 1..n |-> cRCPT(i)]

\* the lines of a body: none is the terminator
BodyLines == {Line(<<"h","i">>), Line(<<".","x">>), Line(<<>>)}
Bodies == SeqsUpTo(BodyLines, MaxBody)

\* MAIL, n RCPTs, DATA, the body and the "." line
Transaction(n, body) == <<cMAIL>> \o Rcpts(n) \o <<cDATA>> \o body \o <<cDot>>

\* the peers of the concurrency runs: one that disconnects at once, one
\* that quits, one that submits a message and disconnects
ConcScripts == {<<>>, <<cQUIT>>, Transaction(1, <<>>)}

\* one line of each kind
Probes ==
    {cHELO, Line(<<"e","h","l","o",SP,"x">>),
     cMAIL, Line(<<"m","a","i","l",SP,"f","r","o","m",":","<","z","@","l",">">>),
     Line(kMAIL \o <<SP>> \o kFROM), Line(kMAIL \o <<SP>> \o Addr(1)), Line(kMAIL),
     cRCPT(1), Line(kRCPT \o <<SP>> \o kTO), Line(kRCPT \o <<SP>> \o Addr(2)),
     cDATA, cRSET, cNOOP, cQUIT, Line(<<"V","R","F","Y",SP,"x">>), Line(<<>>),
     cDot, Line(<<".","x">>), Timeout, Long(kNOOP)}

\* the lines that bring a session to each of its states
Prefixes ==
    {<<>>, <<cMAIL>>, <<cMAIL, cRCPT(1), cDATA>>,
     <<cMAIL, cRCPT(1), cDATA, Line(<<"h","i">>)>>,
     Transaction(1, <<>>), Transaction(1, <<Line(<<"h","i">>)>>)}
    \cup {<<cMAIL>> \o Rcpts(n) : n \in 1..MaxRcpt}

Suffixes == {<<>>, <<cMAIL>>, <<cRCPT(1)>>, <<cDATA>>, <<cNOOP>>}

\* whole sessions: HELO, one or two transactions, QUIT; the session of
\* TestReset; two transactions with different recipients
Sessions ==
    {<<cHELO>> \o Transaction(n, body) \o <<cQUIT>> :
        n \in 1..MaxRcpt, body \in Bodies}
    \cup {<<cHELO>> \o Transaction(n, body) \o Transaction(n, body) \o <<cQUIT>> :
        n \in 1..MaxRcpt, body \in Bodies}
    \cup {<<cMAIL, cRSET, cMAIL, cQUIT>>}
    \cup {Transaction(1, <<>>) \o <<cMAIL, cRCPT(2), cRCPT(1), cDATA, cDot, cQUIT>>}

SessionScripts ==
    {pre \o <<x>> \o suf : pre \in Prefixes, x \in Probes, suf \in Suffixes}
    \cup Sessions

\* the Close calls the owner will make: the first n of them
Calls(n) ==
    [k \in Closers |->
       [pc |-> IF k <= n THEN "idle" ELSE "unused", force |-> FALSE, i |-> 0]]

\* any connections and one Close call
InitOneClose ==
    /\ InitServer
    /\ pending \in SeqsUpTo(ConcScripts, MaxConns)
    /\ closer = Calls(1)

\* fewer connections and any Close calls
InitManyClose ==
    /\ InitServer
    /\ pending \in SeqsUpTo(ConcScripts, MaxConns - 1)
    /\ closer = Calls(MaxCloseCalls)

Init == InitOneClose \/ InitManyClose

\* one connection, whose peer runs a session, and one Close call
InitSession ==
    /\ InitServer
    /\ pending \in {<<s>> : s \in SessionScripts}
    /\ closer = Calls(1)

Spec == Init /\ [][Next]_vars

SessionSpec == InitSession /\ [][Next]_vars

\* Every step but the call of Close is a step of a goroutine of the
\* program or of the consumer of s.NewMessage.
Progress ==
    \/ AcceptConn \/ WaitGroupAdd \/ Register \/ AcceptError
    \/ RemoveClient \/ WaitGroupDone
    \/ \E e \in Conns : Greet(e) \/ ReadCommand(e) \/ ReadData(e)
                        \/ Handoff(e) \/ Queued(e) \/ Signal(e)
    \/ \E k \in Closers : AcceptFinished(k) \/ ForceLock(k) \/ ForceClose(k)
                          \/ ForceUnlock(k) \/ Wait(k) \/ CloseSink(k)

\* The goroutines are scheduled and a consumer keeps receiving from
\* s.NewMessage: the program does not stop while one of them can take a
\* step.  Every goroutine takes finitely many steps, so this is what fair
\* scheduling of each of them comes to.  Whether and when Close is called
\* is up to the owner.
Fairness == WF_vars(Progress)

FairSpec == InitOneClose /\ [][Next]_vars /\ Fairness

\* a peer that uses every command but DATA
cBusy == <<cHELO, cMAIL, cRCPT(1), cRSET, cNOOP, cQUIT>>

\* two connections, one submitting a message and one busy with commands,
\* in either order, and one Close call
InitSlowConsumer ==
    /\ InitServer
    /\ pending \in {<<Transaction(1, <<>>), cBusy>>, <<cBusy, Transaction(1, <<>>)>>}
    /\ closer = Calls(1)

\* the steps of the goroutines of the program: every step of Progress but
\* the receive of the consumer of s.NewMessage
ProgramProgress ==
    \/ AcceptConn \/ WaitGroupAdd \/ Register \/ AcceptError
    \/ RemoveClient \/ WaitGroupDone
    \/ \E e \in Conns : Greet(e) \/ ReadCommand(e) \/ ReadData(e)
                        \/ Queued(e) \/ Signal(e)
    \/ \E k \in Closers : AcceptFinished(k) \/ ForceLock(k) \/ ForceClose(k)
                          \/ ForceUnlock(k) \/ Wait(k) \/ CloseSink(k)

\* The goroutines are scheduled; the consumer of s.NewMessage receives when
\* it likes, or never.
SlowConsumerSpec == InitSlowConsumer /\ [][Next]_vars /\ WF_vars(ProgramProgress)


(***************************************************************************)
(* Notions the claims use.                                                 *)
(***************************************************************************)
\* the completion signal of e has been sent and Server.remove is done with it
Deregistered(e) == client[e].pc = "done" /\ remove.p # e

\* the last item of a non-empty sequence
Last(q) == q[Len(q)]

\* the next item c reads is a line whose keyword is kw
NextIs(c, kw) ==
    c.inp # <<>> /\ Head(c.inp).k = "line" /\ Keyword(Head(c.inp).t) = kw

\* the engine of e reads an item in this step
Reads(e) == client'[e].hist # client[e].hist

\* the engine of e reads a line with keyword kw in the command loop
Command(e, kw) == client[e].pc = "read" /\ NextIs(client[e], kw) /\ Reads(e)

\* the session of e is the same after the step
SessionKept(e) ==
    /\ client'[e].mailFrom = client[e].mailFrom
    /\ client'[e].mailTo = client[e].mailTo

\* the step writes exactly the reply r on the connection of e
Replies(e, r) == client'[e].out = Append(client[e].out, r)

Ok250 == Reply(250, "ok")

\* the recipients of a transaction with n RCPTs
ExpectedTo(n) == [i \in 1..n |-> Addr(i + 1)]

\* the texts of the lines of body, each but the last followed by CR LF
ExpectedBody(body) ==
    LET F[i \in 0..Len(body)] ==
          IF i = 0 THEN <<>>
          ELSE IF i = Len(body) THEN F[i - 1] \o body[i].t
          ELSE F[i - 1] \o body[i].t \o <<"\r", "\n">>
    IN  F[Len(body)]

ExpectedMessage(n, body) ==
    [From |-> Addr(1), To |-> ExpectedTo(n), Body |-> ExpectedBody(body)]

\* the replies to one accepted transaction with n RCPTs
ExpectedReplies(n) ==
    [i \in 1..(n + 1) |-> Ok250]
    \o <<Reply(354, "continue until \\r\\n.\\r\\n"),
         Reply(250, "message queued for delivery")>>

(***************************************************************************)
(* C1.  The sink is closed only when every engine that was started has     *)
(* sent its completion signal, and no engine ever sends a Message on the   *)
(* closed sink.                                                            *)
(***************************************************************************)
C1_SinkClosedAfterEngines ==
    /\ sinkClosed => \A e \in Spawned : client[e].pc = "done"
    /\ \A e \in Conns : client[e].panic # SendOnClosed
    /\ crashed # SendOnClosed

C1_Witness ==
    /\ sinkClosed
    /\ Cardinality(Spawned) >= 2
    /\ \E e \in Spawned : client[e].delivered # <<>>

(***************************************************************************)
(* C2.  After Close(true) is called, eventually every engine has           *)
(* deregistered, the live set is empty, the sink is closed and Close has   *)
(* returned.                                                               *)
(***************************************************************************)
C2_ForcedCloseReturns ==
    (closer[1].pc = "RecvFinished" /\ closer[1].force)
        ~> /\ closer[1].pc = "returned"
           /\ sinkClosed
           /\ clients = <<>>
           /\ \A e \in Spawned : Deregistered(e)

(***************************************************************************)
(* C3.  Once an engine has terminated and Server.remove has processed its  *)
(* completion signal, its handle is not in s.clients and the wait group    *)
(* counts only the engines that have not deregistered.                     *)
(***************************************************************************)
C3_DeregisteredNotLive ==
    /\ \A e \in Conns : Deregistered(e) => ~Registered(e)
    /\ waitGroup <= Cardinality({e \in Spawned : ~Deregistered(e)})

(***************************************************************************)
(* C4.  Close(false) closes no transport, does not close the sink or       *)
(* return while an engine is running, and can return once every session    *)
(* has ended and been deregistered.                                        *)
(***************************************************************************)
\* no Close(true) has been called
NoForce == \A k \in Closers : closer[k].pc \in {"idle", "unused"} \/ ~closer[k].force

\* the engine of e has read QUIT in its command loop and closed its transport
QuitRead(e) ==
    /\ client[e].hist # <<>>
    /\ Last(client[e].hist).k = "line"
    /\ Keyword(Last(client[e].hist).t) = kQUIT
    /\ client[e].pc \in {"finish", "done"}

C4_GracefulClose ==
    /\ NoForce => \A e \in Conns : client[e].connClosed => QuitRead(e)
    /\ \A k \in Closers :
         closer[k].pc \in {"CloseSink", "returned"} =>
             \A e \in Spawned : client[e].pc = "done"
    /\ \A k \in Closers :
         (/\ closer[k].pc = "Wait"
          /\ ~closer[k].force
          /\ \A e \in Spawned : Deregistered(e))
         => waitGroup = 0

(***************************************************************************)
(* C5.  HELO, MAIL FROM:<a>, RCPT TO:<r1> .. RCPT TO:<rN>, DATA, the body  *)
(* and "." hand one Message to the sink, from a to r1..rN in that order,   *)
(* and leave the session without sender and recipients; the same           *)
(* transaction again on the connection is answered the same way and hands  *)
(* over a second Message; QUIT adds none.                                  *)
(***************************************************************************)
C5_OneMessagePerTransaction ==
    \A e \in Conns :
      (Len(client[e].hist) >= 2 /\ client[e].hist[1] = cHELO /\ client[e].hist[2] = cMAIL) =>
      \A n \in 1..MaxRcpt, body \in Bodies :
        LET c == client[e]
            m == ExpectedMessage(n, body)
            once == <<cHELO>> \o Transaction(n, body)
            twice == once \o Transaction(n, body)
            greeted == <<BannerReply, Reply(250, Banner)>>
            bye == <<Reply(221, "bye")>>
        IN  /\ (c.hist = once /\ c.pc = "read") =>
                 /\ c.delivered = <<m>>
                 /\ c.mailFrom = <<>> /\ c.mailTo = <<>>
                 /\ c.out = greeted \o ExpectedReplies(n)
            /\ c.hist = once \o <<cQUIT>> =>
                 /\ c.delivered = <<m>>
                 /\ c.out = greeted \o ExpectedReplies(n) \o bye
            /\ (c.hist = twice /\ c.pc = "read") =>
                 /\ c.delivered = <<m, m>>
                 /\ c.mailFrom = <<>> /\ c.mailTo = <<>>
                 /\ c.out = greeted \o ExpectedReplies(n) \o ExpectedReplies(n)
            /\ c.hist = twice \o <<cQUIT>> =>
                 /\ c.delivered = <<m, m>>
                 /\ c.out = greeted \o ExpectedReplies(n) \o ExpectedReplies(n) \o bye

C5_Witness ==
    \E e \in Conns :
        /\ client[e].hist = <<cHELO>> \o Transaction(2, <<Line(<<"h","i">>)>>)
                              \o Transaction(2, <<Line(<<"h","i">>)>>) \o <<cQUIT>>
        /\ Len(client[e].delivered) = 2
        /\ client[e].delivered[2].To = <<Addr(2), Addr(3)>>

(***************************************************************************)
(* C6.  The body of the Message is the lines read in DATA mode before the  *)
(* first line that is exactly ".", joined by CR LF; a longer line that     *)
(* starts with "." is content and does not end the body.                   *)
(***************************************************************************)
C6_BodyIsLinesJoined ==
    \A e \in Conns :
      (Len(client[e].hist) >= 2 /\ client[e].hist[1] = cHELO /\ client[e].hist[2] = cMAIL) =>
      \A n \in 1..MaxRcpt, body \in Bodies :
        LET c == client[e]
            start == <<cHELO, cMAIL>> \o Rcpts(n) \o <<cDATA>>
        IN  /\ c.hist = start \o body =>
                 /\ c.pc \notin {"send", "queued"}
                 /\ c.delivered = <<>>
                 /\ c.pc = "data" => c.lines = [i \in 1..Len(body) |-> body[i].t]
            /\ (c.hist = start \o body \o <<cDot>> /\ c.pc \in {"queued", "read"}) =>
                 /\ Len(c.delivered) = 1
                 /\ c.delivered[1].Body = ExpectedBody(body)

C6_Witness ==
    \E e \in Conns :
        /\ client[e].hist = <<cHELO>>
               \o Transaction(1, <<Line(<<".","x">>), Line(<<"h","i">>)>>)
        /\ Len(client[e].delivered) = 1
        /\ client[e].delivered[1].Body = <<".", "x", "\r", "\n", "h", "i">>

(***************************************************************************)
(* C7.  With no sender set, a RCPT command, whatever its parameter, is     *)
(* answered 503 "MAIL must be invoked first" and leaves sender and         *)
(* recipients as they were.                                                *)
(***************************************************************************)
C7_RcptBeforeMail ==
    [][\A e \in Conns :
         (Command(e, kRCPT) /\ client[e].mailFrom = <<>>) =>
             /\ Replies(e, Reply(503, "MAIL must be invoked first"))
             /\ SessionKept(e)
             /\ client'[e].pc = "read"]_vars

C7_Witness ==
    \E e \in Conns :
        /\ client[e].hist = <<Line(kRCPT \o <<SP>> \o kTO)>>
        /\ client[e].out = <<BannerReply, Reply(503, "MAIL must be invoked first")>>
        /\ client[e].mailFrom = <<>> /\ client[e].mailTo = <<>>

(***************************************************************************)
(* C8.  With a sender set, a MAIL command, whatever its parameter, is      *)
(* answered 503 "MAIL already invoked" and leaves sender and recipients    *)
(* as they were; the sender changes only by HELO/EHLO, RSET or the         *)
(* completion of DATA.                                                     *)
(***************************************************************************)
C8_SecondMail ==
    [][\A e \in Conns :
         /\ (Command(e, kMAIL) /\ client[e].mailFrom # <<>>) =>
               /\ Replies(e, Reply(503, "MAIL already invoked"))
               /\ SessionKept(e)
               /\ client'[e].pc = "read"
         /\ (client[e].mailFrom # <<>> /\ client'[e].mailFrom # client[e].mailFrom) =>
               /\ client'[e].mailFrom = <<>>
               /\ \/ client[e].pc = "queued"
                  \/ Command(e, kHELO) \/ Command(e, kEHLO) \/ Command(e, kRSET)]_vars

C8_Witness ==
    \E e \in Conns :
        /\ client[e].hist =
             <<cMAIL, cRCPT(1),
               Line(<<"m","a","i","l",SP,"f","r","o","m",":","<","z","@","l",">">>)>>
        /\ Last(client[e].out) = Reply(503, "MAIL already invoked")
        /\ client[e].mailFrom = Addr(1)
        /\ client[e].mailTo = <<Addr(2)>>

(***************************************************************************)
(* C9.  DATA with no recipient, sender set or not, is answered 503 "RCPT   *)
(* must be invoked first" and nothing else, leaves the session as it was   *)
(* and stays in the command loop: the next line is dispatched as a         *)
(* command.                                                                *)
(***************************************************************************)
C9_DataWithoutRcpt ==
    [][\A e \in Conns :
         (Command(e, kDATA) /\ client[e].mailTo = <<>>) =>
             /\ Replies(e, Reply(503, "RCPT must be invoked first"))
             /\ SessionKept(e)
             /\ client'[e].pc = "read"
             /\ client'[e].lines = <<>>]_vars

C9_Witness ==
    \E e \in Conns :
        /\ client[e].hist = <<cMAIL, cDATA, cNOOP>>
        /\ client[e].out = <<BannerReply, Ok250,
                             Reply(503, "RCPT must be invoked first"), Ok250>>
        /\ client[e].mailFrom = Addr(1)

(***************************************************************************)
(* C10.  In the command loop RSET is answered 250 "ok" and leaves no       *)
(* sender and no recipients, so that a MAIL FROM with a valid address that *)
(* follows is answered 250 "ok"; MAIL, RSET, MAIL, QUIT gives the          *)
(* greeting, 250 ok three times and 221 bye, and no Message.               *)
(***************************************************************************)
C10_Reset ==
    /\ [][\A e \in Conns :
            /\ Command(e, kRSET) =>
                  /\ Replies(e, Ok250)
                  /\ client'[e].mailFrom = <<>> /\ client'[e].mailTo = <<>>
                  /\ client'[e].pc = "read"
            /\ (/\ client[e].hist # <<>>
                /\ Last(client[e].hist) = cRSET
                /\ client[e].pc = "read"
                /\ NextIs(client[e], kMAIL) /\ Head(client[e].inp) = cMAIL
                /\ Reads(e)) =>
                  /\ Replies(e, Ok250)
                  /\ client'[e].mailFrom = Addr(1)]_vars
    /\ [](\A e \in Conns :
            client[e].hist = <<cMAIL, cRSET, cMAIL, cQUIT>> =>
                /\ client[e].out = <<BannerReply, Ok250, Ok250, Ok250, Reply(221, "bye")>>
                /\ client[e].delivered = <<>>)

C10_Witness ==
    \E e \in Conns :
        /\ client[e].hist = <<cMAIL, cRCPT(1), cRSET, cMAIL>>
        /\ Last(client[e].out) = Ok250
        /\ client[e].mailFrom = Addr(1)
        /\ client[e].mailTo = <<>>

\* the engine of e takes a turn of its command loop in this step
CommandTurn(e) ==
    /\ client[e].pc = "read"
    /\ client'[e].hist # client[e].hist \/ client'[e].pc # "read"

\* the engine of e takes a turn of the read loop of processDATA in this step
DataTurn(e) ==
    /\ client[e].pc = "data"
    /\ client'[e].hist # client[e].hist \/ client'[e].pc # "data"

\* the parameter of the line lacks the prefix, or what follows the prefix is
\* not an address
BadParam(l, prefix) ==
    \/ ~HasPrefix(ToUpper(Param(l)), prefix)
    \/ ~ParseAddress(SubSeq(Param(l), Len(prefix) + 1, Len(Param(l)))).ok

\* the step writes exactly one reply on the connection of e, with this code
RepliesCode(e, code) ==
    /\ Len(client'[e].out) = Len(client[e].out) + 1
    /\ SubSeq(client'[e].out, 1, Len(client[e].out)) = client[e].out
    /\ Last(client'[e].out).code = code

(***************************************************************************)
(* C11.  A MAIL with no sender set, or a RCPT with a sender set, whose     *)
(* parameter lacks "FROM:" / "TO:" or holds no valid address is answered   *)
(* by exactly one reply, 501; sender and recipients stay as they were and  *)
(* the engine goes on with its command loop.                               *)
(***************************************************************************)
C11_SyntaxError ==
    [][\A e \in Conns :
         LET c == client[e]
         IN  (\/ /\ Command(e, kMAIL) /\ c.mailFrom = <<>>
                 /\ BadParam(Head(c.inp).t, kFROM)
              \/ /\ Command(e, kRCPT) /\ c.mailFrom # <<>>
                 /\ BadParam(Head(c.inp).t, kTO))
             => /\ RepliesCode(e, 501)
                /\ SessionKept(e)
                /\ client'[e].pc = "read"
                /\ client'[e].panic = NoPanic]_vars

(***************************************************************************)
(* C12.  In the command loop a line whose keyword is not a command of the  *)
(* engine is answered 502 "unsupported command" and changes nothing else   *)
(* of the engine: sender, recipients and its place in the command loop     *)
(* are as if the line had not been sent.                                   *)
(***************************************************************************)
Keywords == {kHELO, kEHLO, kMAIL, kRCPT, kDATA, kRSET, kNOOP, kQUIT}

C12_UnsupportedCommand ==
    [][\A e \in Conns :
         LET c == client[e]
         IN  (/\ c.pc = "read" /\ c.inp # <<>> /\ Head(c.inp).k = "line"
              /\ Keyword(Head(c.inp).t) \notin Keywords
              /\ Reads(e))
             => client'[e] =
                  [c EXCEPT !.inp = Tail(c.inp),
                            !.hist = Append(c.hist, Head(c.inp)),
                            !.out = Append(c.out, Reply(502, "unsupported command"))]]_vars

C12_Witness ==
    \E e \in Conns :
        /\ client[e].hist = <<cMAIL, cRCPT(1), Line(<<"V","R","F","Y",SP,"x">>), cDATA>>
        /\ client[e].out = <<BannerReply, Ok250, Ok250,
                             Reply(502, "unsupported command"),
                             Reply(354, "continue until \\r\\n.\\r\\n")>>
        /\ client[e].pc = "data"

(***************************************************************************)
(* C13.  When the read of the next command line fails, by end of input or  *)
(* I/O error, by read timeout or because the line is longer than the       *)
(* buffer of the reader, the engine writes no reply for it and leaves the  *)
(* command loop: it reads no more input.                                   *)
(***************************************************************************)
\* the next read of c does not give a whole line
NextFails(c) == c.inp = <<>> \/ Head(c.inp).k \in {"timeout", "long"}

C13_ReadFailureEndsLoop ==
    [][\A e \in Conns :
         (CommandTurn(e) /\ NextFails(client[e])) =>
             /\ client'[e].out = client[e].out
             /\ client'[e].pc = "finish"]_vars

(***************************************************************************)
(* C14.  An engine that has sent its completion signal, after QUIT or      *)
(* after a failed read, has closed its transport.                          *)
(***************************************************************************)
C14_TransportClosedAtSignal ==
    \A e \in Conns :
        (client[e].pc = "done" /\ client[e].panic = NoPanic) => client[e].connClosed

(***************************************************************************)
(* C15.  QUIT in the command loop, whatever the session, is answered 221   *)
(* "bye"; the engine closes the transport, hands over no Message and has   *)
(* only its completion signal left to send: it reads no line and writes    *)
(* no reply after that.                                                    *)
(***************************************************************************)
C15_Quit ==
    [][\A e \in Conns :
         /\ Command(e, kQUIT) =>
               /\ Replies(e, Reply(221, "bye"))
               /\ SessionKept(e)
               /\ client'[e].connClosed
               /\ client'[e].pc = "finish"
               /\ client'[e].panic = NoPanic
               /\ client'[e].delivered = client[e].delivered
         /\ client[e].pc \in {"finish", "done"} =>
               /\ client'[e].out = client[e].out
               /\ client'[e].hist = client[e].hist
               /\ client'[e].delivered = client[e].delivered
               /\ client'[e].pc \in {"finish", "done"}
               /\ client[e].connClosed => client'[e].connClosed]_vars

C15_Witness ==
    \E e \in Conns :
        /\ client[e].hist = <<cMAIL, cRCPT(1), cQUIT>>
        /\ client[e].inp = <<cNOOP>>
        /\ client[e].pc = "done"
        /\ Last(client[e].out) = Reply(221, "bye")
        /\ client[e].delivered = <<>>

(***************************************************************************)
(* C16.  Whether or not the consumer of the sink ever receives, every      *)
(* engine goes on until it has terminated or is itself handing a Message   *)
(* over, and the loops of accept and remove finish each turn they begin:   *)
(* an engine blocked in its hand-off holds up nothing but its own 250      *)
(* reply.                                                                  *)
(***************************************************************************)
C16_HandoffBlocksOnlyItself ==
    /\ \A f \in Conns :
         (client[f].pc \in {"start", "read", "data", "queued", "finish"})
             ~> (client[f].pc \in {"send", "done"})
    /\ (accept.pc \in {"Add", "Append"}) ~> (accept.pc \in {"Accept", "Finished", "exit"})
    /\ (remove.pc = "lock") ~> (remove.pc = "recv")

C16_Witness ==
    \E e, f \in Conns :
        /\ client[e].pc = "send"
        /\ Last(client[e].out) = Reply(354, "continue until \\r\\n.\\r\\n")
        /\ client[f].hist = cBusy
        /\ client[f].out = <<BannerReply, Reply(250, Banner), Ok250, Ok250, Ok250,
                             Ok250, Reply(221, "bye")>>
        /\ Deregistered(f)
        /\ ~Registered(f)
        /\ accept.pc = "Accept"

(***************************************************************************)
(* C17.  Whatever Close calls are made, one after another or at the same   *)
(* time, forced or not, the sink is closed at most once: at most one call  *)
(* gets past the receive from s.finished, and close is never applied to    *)
(* the closed sink.                                                        *)
(***************************************************************************)
\* the Close calls that have received from s.finished
PastFinished ==
    {k \in Closers : closer[k].pc \in {"Lock", "Range", "Wait", "CloseSink", "returned"}}

C17_SinkClosedOnce ==
    /\ Cardinality(PastFinished) <= 1
    /\ crashed # CloseOfClosed
    /\ sinkClosed => \E k \in Closers : closer[k].pc = "returned"

C17_Witness ==
    \E j, k \in Closers :
        /\ closer[j].pc = "returned"
        /\ closer[k].pc = "RecvFinished"
        /\ closer[j].force # closer[k].force
        /\ sinkClosed

(***************************************************************************)
(* C18.  The first reply an engine writes is the greeting 220 "<banner>    *)
(* [go-smtpsrv]"; it is written before the first read, once, and every     *)
(* other reply comes after it.                                             *)
(***************************************************************************)
C18_GreetingFirst ==
    \A e \in Conns :
        LET c == client[e]
        IN  /\ c.pc \in {"none", "start"} => c.out = <<>> /\ c.hist = <<>>
            /\ c.pc \notin {"none", "start"} =>
                 /\ c.out # <<>>
                 /\ c.out[1] = BannerReply
                 /\ \A i \in 2..Len(c.out) : c.out[i].code # 220

C18_Witness ==
    \E e \in Conns :
        /\ client[e].hist = <<cMAIL, cNOOP>>
        /\ client[e].out = <<BannerReply, Ok250, Ok250>>

(***************************************************************************)
(* C19.  An engine has recipients only while it has a sender, whatever     *)
(* lines it was sent; every Message handed to the sink has a sender and    *)
(* at least one recipient.                                                 *)
(***************************************************************************)
C19_RecipientsNeedSender ==
    \A e \in Conns :
        /\ client[e].mailTo # <<>> => client[e].mailFrom # <<>>
        /\ \A i \in 1..Len(client[e].delivered) :
             /\ client[e].delivered[i].From # <<>>
             /\ client[e].delivered[i].To # <<>>

C19_Witness ==
    \E e \in Conns :
        /\ Len(client[e].delivered) = 1
        /\ client[e].hist = Transaction(1, <<>>) \o <<cHELO, cRCPT(1)>>
        /\ client[e].mailFrom = <<>> /\ client[e].mailTo = <<>>

(***************************************************************************)
(* C20.  When a read fails, by end of input, I/O error or read timeout,    *)
(* while processDATA collects a body, no Message is handed over and no     *)
(* reply written, and the engine terminates: it does not return to the     *)
(* command loop to read again.                                             *)
(***************************************************************************)
C20_ReadFailureInData ==
    [][\A e \in Conns :
         (/\ DataTurn(e)
          /\ client[e].inp = <<>> \/ Head(client[e].inp).k = "timeout") =>
             /\ client'[e].out = client[e].out
             /\ client'[e].delivered = client[e].delivered
             /\ client'[e].pc = "finish"]_vars

(***************************************************************************)
(* C21.  When Close(true) closes the transport of an engine that is        *)
(* blocked handing a Message to the sink, the hand-off is not cancelled    *)
(* and the sink is still open when the consumer receives the Message; the  *)
(* next read of the engine fails, the engine writes nothing more after     *)
(* the 250 for the Message, and it deregisters.                            *)
(***************************************************************************)
\* the transport of e was closed by Close(true) during its hand-off
ClosedInHandoff(e) == client[e].forced = "send"

\* the hand-off under way when the transport was closed goes through, with
\* the sink open, and the engine is taken off the list when it has ended
HandoffSurvivesClose(e) ==
    /\ (ClosedInHandoff(e) /\ client[e].pc = "send") =>
          /\ ~sinkClosed
          /\ client'[e] # client[e] =>
                /\ client'[e].pc = "queued"
                /\ client'[e].delivered =
                      Append(client[e].delivered,
                             [From |-> client[e].mailFrom, To |-> client[e].mailTo,
                              Body |-> Join(client[e].lines, CRLF)])
    /\ (ClosedInHandoff(e) /\ sinkClosed) =>
          client[e].pc = "done" /\ client[e].delivered # <<>>
    /\ (ClosedInHandoff(e) /\ Deregistered(e)) => ~Registered(e)

C21_ClosureSeenAtNextRead ==
    [][\A e \in Conns :
         /\ HandoffSurvivesClose(e)
         /\ (ClosedInHandoff(e) /\ CommandTurn(e)) =>
               /\ client'[e].pc = "finish"
               /\ client'[e].out = client[e].out]_vars

(***************************************************************************)
(* C21, amended.  As C21, but the engine observes the closure at the       *)
(* first read that the lines already in the buffer of its reader do not    *)
(* serve: that read fails, nothing is written or handed over for it, and   *)
(* the engine ends its command loop and deregisters.  Lines the peer had   *)
(* sent ahead are still read and answered.                                 *)
(***************************************************************************)
C21_ClosureSeenWhenBufferIsEmpty ==
    [][\A e \in Conns :
         /\ HandoffSurvivesClose(e)
         /\ (/\ ClosedInHandoff(e)
             /\ client[e].inp = <<>>
             /\ CommandTurn(e) \/ DataTurn(e)) =>
               /\ client'[e].out = client[e].out
               /\ client'[e].delivered = client[e].delivered
               /\ client'[e].inp = <<>>
               /\ client'[e].pc = IF CommandTurn(e) THEN "finish" ELSE "read"]_vars

C21_Witness ==
    \E e \in Conns :
        /\ ClosedInHandoff(e)
        /\ client[e].hist = Transaction(1, <<>>) \o <<cNOOP>>
        /\ client[e].out = <<BannerReply>> \o ExpectedReplies(1) \o <<Ok250>>
        /\ Len(client[e].delivered) = 1
        /\ Deregistered(e)
        /\ sinkClosed

(***************************************************************************)
(* C22.  A command line other than QUIT never ends the engine that reads   *)
(* it: it is answered by one reply and the engine stays in its command     *)
(* loop or goes on to read the body; and no command line ends the          *)
(* process, that is the engines of the other connections and the           *)
(* registry.                                                               *)
(***************************************************************************)
C22_CommandsNeverTerminate ==
    [][/\ \A e \in Conns :
            LET c == client[e]
            IN  (/\ c.pc = "read" /\ c.inp # <<>> /\ Head(c.inp).k = "line"
                 /\ Keyword(Head(c.inp).t) # kQUIT
                 /\ Reads(e))
                => /\ Len(client'[e].out) = Len(c.out) + 1
                   /\ client'[e].pc \in {"read", "data"}
                   /\ client'[e].panic = NoPanic
       /\ crashed' = NoPanic]_vars

(***************************************************************************)
(* C23.  The reply 250 "message queued for delivery" is written only for   *)
(* a Message the consumer has received: an engine has written as many of   *)
(* them as it has handed Messages over, less the one whose hand-off has    *)
(* just been completed; when the reply is written the session has been     *)
(* reset.                                                                  *)
(***************************************************************************)
QueuedReply == Reply(250, "message queued for delivery")

\* how many times c has written the reply
QueuedReplies(c) == Cardinality({i \in 1..Len(c.out) : c.out[i] = QueuedReply})

C23_QueuedAfterHandoff ==
    /\ [](\A e \in Conns :
            QueuedReplies(client[e]) =
                Len(client[e].delivered) - (IF client[e].pc = "queued" THEN 1 ELSE 0))
    /\ [][\A e \in Conns :
            QueuedReplies(client'[e]) > QueuedReplies(client[e]) =>
                /\ client[e].pc = "queued"
                /\ client'[e].out = Append(client[e].out, QueuedReply)
                /\ client'[e].delivered = client[e].delivered
                /\ client'[e].mailFrom = <<>> /\ client'[e].mailTo = <<>>]_vars

C23_Witness ==
    \E e \in Conns :
        /\ QueuedReplies(client[e]) = 1
        /\ Len(client[e].delivered) = 2
        /\ client[e].pc = "queued"
        /\ client[e].mailFrom = Addr(1)

(***************************************************************************)
(* C24.  HELO or EHLO, with or without an argument, read in the command    *)
(* loop with any sender and recipients, is answered 250 and the banner     *)
(* and leaves no sender and no recipients.                                 *)
(***************************************************************************)
C24_HeloResets ==
    [][\A e \in Conns :
         (Command(e, kHELO) \/ Command(e, kEHLO)) =>
             /\ Replies(e, Reply(250, Banner))
             /\ client'[e].mailFrom = <<>> /\ client'[e].mailTo = <<>>
             /\ client'[e].pc = "read"]_vars

C24_Witness ==
    \E e \in Conns :
        /\ client[e].hist = <<cMAIL>> \o Rcpts(2) \o <<Line(<<"e","h","l","o",SP,"x">>), cRCPT(1)>>
        /\ client[e].out = <<BannerReply, Ok250, Ok250, Ok250, Reply(250, Banner),
                             Reply(503, "MAIL must be invoked first")>>
        /\ client[e].mailFrom = <<>> /\ client[e].mailTo = <<>>

(***************************************************************************)
(* C25.  The recipients of a Message that has been handed to the sink      *)
(* stay what they were at the hand-off, whatever the connection is sent    *)
(* afterwards: a RCPT accepted later appends to the list of the new        *)
(* session, which shares no memory with the Message once reset has run.   *)
(***************************************************************************)
C25_EmittedRecipientsKept ==
    \A e \in Conns :
        LET c == client[e]
        IN  /\ Len(c.sent) = Len(c.delivered)
            /\ \A i \in 1..Len(c.sent) :
                 /\ View(c.heap, c.sent[i]) = c.delivered[i].To
                 /\ (c.to.len > 0 /\ c.pc # "queued") => c.to.arr # c.sent[i].arr
            /\ View(c.heap, c.to) = c.mailTo

C25_Witness ==
    \E e \in Conns :
        /\ Len(client[e].delivered) = 2
        /\ client[e].delivered[1].To = <<Addr(2)>>
        /\ client[e].delivered[2].To = <<Addr(3), Addr(2)>>
        /\ View(client[e].heap, client[e].sent[1]) = <<Addr(2)>>

(***************************************************************************)
(* C26.  The counter of the wait group is never negative and never less    *)
(* than the number of handles in s.clients, and equals that number except  *)
(* while accept is between s.waitGroup.Add(1) and the append of the        *)
(* handle; remove calls Done only for a handle it has taken off the list.  *)
(***************************************************************************)
C26_CounterMatchesLiveSet ==
    /\ waitGroup >= 0
    /\ waitGroup >= Len(clients)
    /\ accept.pc # "Append" => waitGroup = Len(clients)
    /\ remove.pc = "Done" => ~Registered(remove.p)

(***************************************************************************)
(* C26, amended.  As C26, but the counter exceeds the number of handles    *)
(* in two places: by one while accept is between Add(1) and the append,    *)
(* and by one while remove is between taking a handle off the list and     *)
(* Done.  No handle is on the list twice.                                  *)
(***************************************************************************)
C26_CounterMatchesLiveSetBetweenSteps ==
    /\ waitGroup >= 0
    /\ waitGroup = Len(clients) + (IF accept.pc = "Append" THEN 1 ELSE 0)
                                + (IF remove.pc = "Done" THEN 1 ELSE 0)
    /\ remove.pc = "Done" => ~Registered(remove.p)
    /\ \A i, j \in 1..Len(clients) : clients[i] = clients[j] => i = j

C26_Witness ==
    /\ remove.pc = "Done"
    /\ accept.pc = "Append"
    /\ Len(clients) = 0
    /\ waitGroup = 2

====
